---- MODULE Spec2Model ----
(***************************************************************************)
(* primalscheme/multiplex.py: MultiplexScheme.design_scheme, Window and    *)
(* Region (find_primers, _find_primers_for_slice, _pick_pair).             *)
(*                                                                         *)
(* Coordinates are integers on the primary reference.  The primer-design   *)
(* engine and the aligner (primalscheme.components) are environment: what  *)
(* they return is drawn from bounded sets.                                 *)
(***************************************************************************)
EXTENDS Integers, Sequences, FiniteSets, TLC

VARIABLES
    scheme,          \* MultiplexScheme's constructor fields (never reassigned)
    scheme_regions,  \* MultiplexScheme.regions
    regions,         \* design_scheme local: regions
    region_num,      \* design_scheme local: region_num
    is_last,         \* design_scheme local: is_last
    region,          \* the Region (or bare Window) object at hand
    exhausted_left,  \* find_primers local: exhausted_left
    pc,              \* position in the running code
    error,           \* the exception that left the running call ("none" if none)
    progress_calls,  \* arguments progress_func has been called with, in order
    searched,        \* slice_start of each single-slice attempt of this find_primers
    reply,           \* the engine's answer a lone single-slice attempt is run on
    candidates,      \* _find_primers_for_slice local: candidates, after filtering
    made_with,       \* the arguments the Window or Region at hand was constructed with
    calls            \* the last two calls made on a lone Window, latest last

vars == << scheme, scheme_regions, regions, region_num, is_last, region,
           exhausted_left, pc, error, progress_calls, searched, reply,
           candidates, made_with, calls >>

-----------------------------------------------------------------------------
(* Bounds of the model.                                                    *)

MaxRefLen == 10
MaxAmplicon == 5
MaxStep == 2
MaxCands == 2
MaxOffset == 1
MaxFreeRefLen == 7

(* Program constant.                                                       *)
PENALTY_THRESHOLD == 5

None == [none |-> TRUE]

-----------------------------------------------------------------------------
(* MultiplexScheme.__init__                                                *)

amplicon_max_variation == scheme.amplicon_size_max - scheme.amplicon_size_min

SchemeInit(ref_len, size_min, size_max, primer_max, overlap, step, progress) ==
    [ ref_len           |-> ref_len,
      target_overlap    |-> overlap,
      step_distance     |-> step,
      amplicon_size_min |-> size_min,
      amplicon_size_max |-> size_max,
      primer_max_size   |-> primer_max,
      progress_func     |-> progress ]

\* (amplicon_size_max - amplicon_size_min, PRIMER_MAX_SIZE, target_overlap):
\* the tightest setting, and a wider one
Profiles == { << 0, 1, 0 >>, << 1, 2, 1 >> }

\* step distances: the smallest and the longest
Steps == {1, MaxStep}

Schemes ==
    { SchemeInit(n, MaxAmplicon - pr[1], MaxAmplicon, pr[2], pr[3], st, pf) :
        n \in 1..MaxRefLen, pr \in Profiles, st \in Steps,
        pf \in BOOLEAN }

-----------------------------------------------------------------------------
(* Window                                                                  *)

\* an optional argument: omitted, or given with a value
Omitted == [given |-> FALSE, value |-> 0]
Given(v) == [given |-> TRUE, value |-> v]

\* Window.slice_end
SliceEnd(w) == w.slice_start + scheme.amplicon_size_max

\* right_limit or len(scheme.primary_ref.seq): None and 0 are both falsy
RightLimit(arg) ==
    IF arg.given /\ arg.value # 0 THEN arg.value ELSE scheme.ref_len

\* (mutant) regions numbered from 0
PoolFromZero(n) == IF n % 2 = 0 THEN 1 ELSE 2

\* Region.pool
Pool(n) == IF n % 2 = 1 THEN 1 ELSE 2

\* the fields Window.__init__ assigns
NewWindow(left_limit, slice_start, right_limit_arg) ==
    [ left_limit           |-> left_limit,
      slice_start          |-> slice_start,
      right_limit          |-> RightLimit(right_limit_arg),
      initial_slice_start  |-> slice_start ]

\* the fields Region.__init__ assigns, Window.__init__'s among them
NewRegion(n, left_limit, slice_start, right_limit_arg) ==
    [ region_num           |-> n,
      pool                 |-> Pool(n),
      candidate_pairs      |-> << >>,
      top_pair             |-> None,
      left_limit           |-> left_limit,
      slice_start          |-> slice_start,
      right_limit          |-> RightLimit(right_limit_arg),
      initial_slice_start  |-> slice_start ]

\* the bounds check of Window.__init__
OutOfBounds(w) == w.slice_start < w.left_limit \/ SliceEnd(w) > w.right_limit

\* (mutant) the guard measured against 0, not left_limit
StepLeftRaisesAtZero(w) == (w.slice_start - scheme.step_distance) < 0

\* Window.step_left: the guard, and the move
StepLeftRaises(w) == (w.slice_start - scheme.step_distance) < w.left_limit

\* (mutant) the move is one base, whatever the step distance
StepLeftByOne(w) == [w EXCEPT !.slice_start = @ - 1]

StepLeft(w) == [w EXCEPT !.slice_start = @ - scheme.step_distance]

\* (mutant) the guard measured from slice_start, not slice_end
StepRightRaisesFromStart(w) ==
    (w.slice_start + scheme.step_distance) > w.right_limit

\* Window.step_right: the guard, and the move
StepRightRaises(w) == (SliceEnd(w) + scheme.step_distance) > w.right_limit

\* (mutant) the move is one base, whatever the step distance
StepRightByOne(w) == [w EXCEPT !.slice_start = @ + 1]

StepRight(w) == [w EXCEPT !.slice_start = @ + scheme.step_distance]

\* (mutant) reset_slice leaves the slice where it is
ResetSliceNoOp(w) == w

\* (mutant) reset_slice goes to the left limit
ResetSliceToLeftLimit(w) == [w EXCEPT !.slice_start = w.left_limit]

\* Window.reset_slice
ResetSlice(w) == [w EXCEPT !.slice_start = w.initial_slice_start]

-----------------------------------------------------------------------------
(* The primer-design engine and the aligner (primalscheme.components).     *)
(* A candidate primer has a position, a penalty, and aligns or not.  A     *)
(* left primer runs rightwards from start, a right primer leftwards.       *)

Primer(start, end, penalty, aligns) ==
    [start |-> start, end |-> end, penalty |-> penalty, aligns |-> aligns]

\* how far from its edge of the slice a candidate may start: anywhere in the
\* slice on references of up to MaxFreeRefLen bases, within MaxOffset of the
\* edge on longer ones
Reach ==
    IF scheme.ref_len <= MaxFreeRefLen
    THEN scheme.amplicon_size_max - 1 ELSE MaxOffset

\* the candidates design_primers can return for the slice of w: each lies
\* inside [slice_start, slice_end), left candidates counted from the left
\* edge of the slice, right candidates from its right edge
LeftPrimers(w, penalties, alignments) ==
    { c \in { Primer(s, s + n - 1, p, a) :
                s \in w.slice_start..(w.slice_start + Reach),
                n \in 1..scheme.primer_max_size,
                p \in penalties, a \in alignments } :
        c.end < SliceEnd(w) }

RightPrimers(w, penalties, alignments) ==
    { c \in { Primer(s, s - n + 1, p, a) :
                s \in (SliceEnd(w) - 1 - Reach)..(SliceEnd(w) - 1),
                n \in 1..scheme.primer_max_size,
                p \in penalties, a \in alignments } :
        c.end >= w.slice_start }

\* every list over S of at most n elements
SeqsUpTo(S, n) == UNION { [1..k -> S] : k \in 0..n }

\* one answer of the engine for a slice: the list of each direction
Reply(left, right) == [left |-> left, right |-> right]

\* the answers drawn while design_scheme runs: at most one candidate a side
Penalties == {0, PENALTY_THRESHOLD + 1}

SchemeReplies(w) ==
    { Reply(l, r) : l \in SeqsUpTo(LeftPrimers(w, Penalties, {TRUE}), 1),
                    r \in SeqsUpTo(RightPrimers(w, Penalties, {TRUE}), 1) }

\* CandidatePrimerPair and its combined_penalty
CandidatePrimerPair(left, right) == [left |-> left, right |-> right]
CombinedPenalty(pair) == pair.left.penalty + pair.right.penalty

-----------------------------------------------------------------------------
(* Region._find_primers_for_slice and Region._pick_pair                    *)

RemoveAt(seq, i) == SubSeq(seq, 1, i - 1) \o SubSeq(seq, i + 1, Len(seq))

\* primer.align raised FailedAlignmentError, or primer.penalty > threshold
Discarded(primer) == ~primer.aligns \/ primer.penalty > PENALTY_THRESHOLD

\* for primer in direction: ... direction.remove(primer)
\* The list iterator holds an index: i is the (1-based) index of the element
\* visited now, and a removal shifts the rest of the list left under it.
RECURSIVE FilterFrom(_, _)
FilterFrom(direction, i) ==
    IF i > Len(direction) THEN direction
    ELSE IF Discarded(direction[i])
         THEN FilterFrom(RemoveAt(direction, i), i + 1)
         ELSE FilterFrom(direction, i + 1)

Filter(direction) == FilterFrom(direction, 1)

\* [CandidatePrimerPair(left, right) for left in ... for right in ...]
CrossProduct(left, right) ==
    [ k \in 1..(Len(left) * Len(right)) |->
        CandidatePrimerPair(left[((k - 1) \div Len(right)) + 1],
                            right[((k - 1) % Len(right)) + 1]) ]

\* (mutant) an unstable sort: a pair goes before the pairs of equal penalty
RECURSIVE InsertSortedUnstable(_, _)
InsertSortedUnstable(sorted, pair) ==
    IF sorted = << >> THEN << pair >>
    ELSE IF CombinedPenalty(sorted[Len(sorted)]) < CombinedPenalty(pair)
         THEN Append(sorted, pair)
         ELSE Append(InsertSortedUnstable(
                         SubSeq(sorted, 1, Len(sorted) - 1), pair),
                     sorted[Len(sorted)])

\* list.sort(key=combined_penalty): stable, ascending
RECURSIVE InsertSorted(_, _)
InsertSorted(sorted, pair) ==
    IF sorted = << >> THEN << pair >>
    ELSE IF CombinedPenalty(sorted[Len(sorted)]) <= CombinedPenalty(pair)
         THEN Append(sorted, pair)
         ELSE Append(InsertSorted(SubSeq(sorted, 1, Len(sorted) - 1), pair),
                     sorted[Len(sorted)])

RECURSIVE SortFrom(_, _, _)
SortFrom(pairs, i, sorted) ==
    IF i > Len(pairs) THEN sorted
    ELSE SortFrom(pairs, i + 1, InsertSorted(sorted, pairs[i]))

SortCandidatePairs(pairs) == SortFrom(pairs, 1, << >>)

\* one single-slice attempt on the engine's answer
FindPrimersForSlice(answer) ==
    LET left  == Filter(answer.left)
        right == Filter(answer.right)
        insufficient == left = << >> \/ right = << >>
        pairs == SortCandidatePairs(CrossProduct(left, right))
    IN  [ insufficient    |-> insufficient,
          candidates      |-> << left, right >>,
          candidate_pairs |-> IF insufficient THEN << >> ELSE pairs,
          top_pair        |-> IF insufficient THEN None ELSE pairs[1] ]

-----------------------------------------------------------------------------
(* MultiplexScheme.design_scheme                                           *)

Max(a, b) == IF a >= b THEN a ELSE b
Min(a, b) == IF a <= b THEN a ELSE b

\* (mutant) the default branch forgotten: always prev's left end + 1
LeftLimitAlwaysForced(n, prev, prev_in_pool) ==
    IF n = 1 THEN 0 ELSE prev.left.end + 1

\* (mutant) no progress is forced: every region may start at the origin
LeftLimitAtOrigin(n, prev, prev_in_pool) == 0

\* determine left limit
LeftLimit(n, prev, prev_in_pool) ==
    IF n = 1 THEN 0
    ELSE IF n = 2 \/ prev.left.start > prev_in_pool.right.start
         THEN prev.left.end + 1
         ELSE prev_in_pool.right.start + 1

\* (mutant) the last region only when less than one amplicon remains
IsLastStrict(prev) ==
    scheme.ref_len - prev.right.start < scheme.amplicon_size_max

\* handle last region: remaining_distance <= amplicon_size_max
IsLast(prev) ==
    scheme.ref_len - prev.right.start <= scheme.amplicon_size_max

\* (mutant) the target overlap is taken even when it is impossible
SliceStartUnclamped(n, prev, left_limit, last) ==
    IF n = 1 THEN 0
    ELSE LET insert_start == prev.right.end - scheme.target_overlap - 1
             wanted == insert_start - scheme.primer_max_size
                         - amplicon_max_variation
             right_aligned == scheme.ref_len - scheme.amplicon_size_max
         IN  IF last THEN Min(wanted, right_aligned) ELSE wanted

\* determine slice start
SliceStart(n, prev, left_limit, last) ==
    IF n = 1 THEN 0
    ELSE LET insert_start == prev.right.end - scheme.target_overlap - 1
             wanted == insert_start - scheme.primer_max_size
                         - amplicon_max_variation
             clamped == Max(wanted, left_limit)
             right_aligned == scheme.ref_len - scheme.amplicon_size_max
         IN  IF last THEN Min(clamped, right_aligned) ELSE clamped

\* the head of the loop: the bounds of the next region, Region(...), and the
\* entry of find_primers.  Window.__init__ may raise; nothing catches that.
NextRegion ==
    /\ pc = "loop"
    /\ LET n == region_num + 1
           prev == IF regions # << >>
                   THEN regions[Len(regions)].top_pair ELSE None
           prev_in_pool == IF n > 2
                           THEN regions[Len(regions) - 1].top_pair ELSE None
           left_limit == LeftLimit(n, prev, prev_in_pool)
           last == IF n = 1 THEN is_last ELSE IsLast(prev)
           new == NewRegion(n, left_limit,
                            SliceStart(n, prev, left_limit, last), Omitted)
       IN  /\ region_num' = n
           /\ is_last' = last
           /\ region' = new
           /\ made_with' = << left_limit, new.initial_slice_start, Omitted >>
           /\ IF OutOfBounds(new)
              THEN pc' = "raised" /\ error' = "SliceOutOfBoundsError"
              ELSE pc' = "find_primers" /\ error' = error
    /\ exhausted_left' = FALSE
    /\ searched' = << >>
    /\ UNCHANGED << calls,
                    scheme, scheme_regions, regions, progress_calls, reply,
                    candidates >>

\* (mutant) the callback gets its arguments the other way round
ProgressSwapped(done, total) ==
    IF scheme.progress_func
    THEN Append(progress_calls, << total, done >>) ELSE progress_calls

\* the progress callback, when there is one
Progress(done, total) ==
    IF scheme.progress_func
    THEN Append(progress_calls, << done, total >>) ELSE progress_calls

\* find_primers returned: regions.append(region), progress, loop test
RegionFound ==
    /\ pc = "found"
    /\ regions' = Append(regions, region)
    /\ progress_calls' = Progress(region.top_pair.right.start, scheme.ref_len)
    /\ pc' = IF is_last THEN "finish" ELSE "loop"
    /\ UNCHANGED << calls, made_with,
                    scheme, scheme_regions, region_num, is_last, region,
                    exhausted_left, error, searched, reply, candidates >>

\* (mutants) never re-raised; re-raised whatever the region
ReraisedNever(n) == FALSE
ReraisedAlways(n) == TRUE

\* except NoSuitablePrimersError: re-raise for region 1, else break
Reraised(n) == n = 1

\* (mutant) the region that failed is appended before the loop is left
RegionFailedAppends ==
    /\ pc = "no_suitable"
    /\ regions' = Append(regions, region)
    /\ IF Reraised(region_num)
       THEN pc' = "raised" /\ error' = "NoSuitablePrimersError"
       ELSE pc' = "finish" /\ error' = error
    /\ UNCHANGED << calls, made_with, scheme, scheme_regions, region_num,
                    is_last, region, exhausted_left, progress_calls,
                    searched, reply, candidates >>

RegionFailed ==
    /\ pc = "no_suitable"
    /\ IF Reraised(region_num)
       THEN pc' = "raised" /\ error' = "NoSuitablePrimersError"
       ELSE pc' = "finish" /\ error' = error
    /\ UNCHANGED << calls, made_with,
                    scheme, scheme_regions, regions, region_num, is_last,
                    region, exhausted_left, progress_calls, searched, reply,
                    candidates >>

\* after the loop: self.regions = regions, the completion callback
Finish ==
    /\ pc = "finish"
    /\ scheme_regions' = regions
    /\ progress_calls' = Progress(scheme.ref_len, scheme.ref_len)
    /\ pc' = "done"
    /\ UNCHANGED << calls, made_with,
                    scheme, regions, region_num, is_last, region,
                    exhausted_left, error, searched, reply, candidates >>

-----------------------------------------------------------------------------
(* Region.find_primers: one action per way round its loop                  *)

\* more attempts than any find_primers makes within the bounds of the model
MaxAttempts == MaxRefLen + 4

\* _find_primers_for_slice can raise InsufficientPrimersError here
\* (stated as a plain truth value: the way round the loop does not depend on
\* which of the insufficient answers it was)
Insufficient ==
    ~ \A r \in SchemeReplies(region) : ~FindPrimersForSlice(r).insufficient

\* the attempt succeeds: top_pair is set, break, return
FindSucceeds ==
    /\ pc = "find_primers"
    /\ Len(searched) < MaxAttempts
    /\ \E r \in SchemeReplies(region) :
         LET res == FindPrimersForSlice(r)
         IN  /\ ~res.insufficient
             /\ region' = [region EXCEPT
                              !.candidate_pairs = res.candidate_pairs,
                              !.top_pair = res.top_pair]
    /\ searched' = Append(searched, region.slice_start)
    /\ pc' = "found"
    /\ UNCHANGED << calls, made_with,
                    scheme, scheme_regions, regions, region_num, is_last,
                    exhausted_left, error, progress_calls, reply, candidates >>

\* insufficient, not exhausted_left, step_left succeeds
FindStepsLeft ==
    /\ pc = "find_primers"
    /\ Len(searched) < MaxAttempts
    /\ Insufficient
    /\ ~exhausted_left
    /\ ~StepLeftRaises(region)
    /\ region' = StepLeft(region)
    /\ searched' = Append(searched, region.slice_start)
    /\ UNCHANGED << calls, made_with,
                    scheme, scheme_regions, regions, region_num, is_last,
                    exhausted_left, pc, error, progress_calls, reply,
                    candidates >>

\* insufficient, not exhausted_left, step_left raises: reset_slice
FindResets ==
    /\ pc = "find_primers"
    /\ Len(searched) < MaxAttempts
    /\ Insufficient
    /\ ~exhausted_left
    /\ StepLeftRaises(region)
    /\ region' = ResetSlice(region)
    /\ exhausted_left' = TRUE
    /\ searched' = Append(searched, region.slice_start)
    /\ UNCHANGED << calls, made_with,
                    scheme, scheme_regions, regions, region_num, is_last,
                    pc, error, progress_calls, reply, candidates >>

\* insufficient, exhausted_left, step_right succeeds
FindStepsRight ==
    /\ pc = "find_primers"
    /\ Len(searched) < MaxAttempts
    /\ Insufficient
    /\ exhausted_left
    /\ ~StepRightRaises(region)
    /\ region' = StepRight(region)
    /\ searched' = Append(searched, region.slice_start)
    /\ UNCHANGED << calls, made_with,
                    scheme, scheme_regions, regions, region_num, is_last,
                    exhausted_left, pc, error, progress_calls, reply,
                    candidates >>

\* (mutant) the failure of step_right is swallowed and the loop goes on
FindFailsSwallowed ==
    /\ pc = "find_primers"
    /\ Len(searched) < MaxAttempts
    /\ Insufficient
    /\ exhausted_left
    /\ StepRightRaises(region)
    /\ searched' = Append(searched, region.slice_start)
    /\ UNCHANGED << calls, made_with,
                    scheme, scheme_regions, regions, region_num, is_last,
                    region, exhausted_left, pc, error, progress_calls, reply,
                    candidates >>

\* insufficient, exhausted_left, step_right raises: NoSuitablePrimersError
FindFails ==
    /\ pc = "find_primers"
    /\ Len(searched) < MaxAttempts
    /\ Insufficient
    /\ exhausted_left
    /\ StepRightRaises(region)
    /\ searched' = Append(searched, region.slice_start)
    /\ pc' = "no_suitable"
    /\ UNCHANGED << calls, made_with,
                    scheme, scheme_regions, regions, region_num, is_last,
                    region, exhausted_left, error, progress_calls, reply,
                    candidates >>

-----------------------------------------------------------------------------
(* design_scheme on a fresh MultiplexScheme                                *)

NoReply == Reply(<< >>, << >>)

Init ==
    /\ scheme \in Schemes
    /\ scheme_regions = << >>
    /\ regions = << >>
    /\ region_num = 0
    /\ is_last = FALSE
    /\ region = None
    /\ exhausted_left = FALSE
    /\ pc = "loop"
    /\ error = "none"
    /\ progress_calls = << >>
    /\ searched = << >>
    /\ reply = NoReply
    /\ candidates = << << >>, << >> >>
    /\ made_with = << >>
    /\ calls = << >>

Next ==
    \/ NextRegion
    \/ FindSucceeds
    \/ FindStepsLeft
    \/ FindResets
    \/ FindStepsRight
    \/ FindFails
    \/ RegionFound
    \/ RegionFailed
    \/ Finish

Spec == Init /\ [][Next]_vars

\* the schemes whose runs are followed to their end: the longest reference
\* whose candidates may lie anywhere in the slice, and the longest reference
\* of all with the tightest setting
LiveSchemes ==
    { sch \in Schemes :
        /\ ~sch.progress_func
        /\ \/ sch.ref_len = MaxFreeRefLen
           \/ sch.ref_len = MaxRefLen /\ sch.target_overlap = 0 }

FairInit == Init /\ scheme \in LiveSchemes

\* design_scheme runs on while it can
FairSpec == FairInit /\ [][Next]_vars /\ WF_vars(Next)

-----------------------------------------------------------------------------
(* A Window on its own: constructed, then stepped and reset in any order   *)

Coords == (0 - 1)..(MaxRefLen + 1)

RightLimitArgs == {Omitted} \cup { Given(v) : v \in Coords }

\* the schemes a lone Window or Region is tried with: what they read of the
\* scheme is ref_len, amplicon_size_max, primer_max_size and step_distance
PlainSchemes ==
    { sch \in Schemes : sch.target_overlap = 0 /\ ~sch.progress_func }

WindowInit ==
    /\ scheme \in PlainSchemes
    /\ scheme_regions = << >>
    /\ regions = << >>
    /\ region_num = 0
    /\ is_last = FALSE
    /\ region = None
    /\ exhausted_left = FALSE
    /\ pc = "new"
    /\ error = "none"
    /\ progress_calls = << >>
    /\ searched = << >>
    /\ reply = NoReply
    /\ candidates = << << >>, << >> >>
    /\ made_with = << >>
    /\ calls = << >>

\* a call on the Window: its name, slice_start before it, how it ended
Call(op, before, ended) == [op |-> op, before |-> before, error |-> ended]

\* the last two calls, with this one the latest
Called(call) ==
    IF calls = << >> THEN << call >> ELSE << calls[Len(calls)], call >>

\* Window(scheme, left_limit, slice_start, right_limit)
WindowNew ==
    /\ pc = "new"
    /\ \E left_limit \in Coords, slice_start \in Coords, arg \in RightLimitArgs :
         LET new == NewWindow(left_limit, slice_start, arg)
         IN  /\ region' = new
             /\ made_with' = << left_limit, slice_start, arg >>
             /\ IF OutOfBounds(new)
                THEN pc' = "raised" /\ error' = "SliceOutOfBoundsError"
                ELSE pc' = "window" /\ error' = "none"
    /\ UNCHANGED << calls, scheme, scheme_regions, regions, region_num,
                    is_last, exhausted_left, progress_calls, searched, reply,
                    candidates >>

\* window.step_left(), its exception caught by the caller
WindowStepLeft ==
    /\ pc = "window"
    /\ IF StepLeftRaises(region)
       THEN region' = region /\ error' = "SliceOutOfBoundsError"
       ELSE region' = StepLeft(region) /\ error' = "none"
    /\ calls' = Called(Call("step_left", region.slice_start, error'))
    /\ UNCHANGED << made_with, scheme, scheme_regions, regions, region_num,
                    is_last, exhausted_left, pc, progress_calls, searched,
                    reply, candidates >>

\* window.step_right(), its exception caught by the caller
WindowStepRight ==
    /\ pc = "window"
    /\ IF StepRightRaises(region)
       THEN region' = region /\ error' = "SliceOutOfBoundsError"
       ELSE region' = StepRight(region) /\ error' = "none"
    /\ calls' = Called(Call("step_right", region.slice_start, error'))
    /\ UNCHANGED << made_with, scheme, scheme_regions, regions, region_num,
                    is_last, exhausted_left, pc, progress_calls, searched,
                    reply, candidates >>

\* window.reset_slice()
WindowResetSlice ==
    /\ pc = "window"
    /\ region' = ResetSlice(region)
    /\ error' = "none"
    /\ calls' = Called(Call("reset_slice", region.slice_start, error'))
    /\ UNCHANGED << made_with, scheme, scheme_regions, regions, region_num,
                    is_last, exhausted_left, pc, progress_calls, searched,
                    reply, candidates >>

WindowNext ==
    \/ WindowNew
    \/ WindowStepLeft
    \/ WindowStepRight
    \/ WindowResetSlice

WindowSpec == WindowInit /\ [][WindowNext]_vars

-----------------------------------------------------------------------------
(* A Region on its own: constructed within bounds, then find_primers       *)

\* the schemes a lone Region is searched with: one reference of each kind of
\* candidate placement; the right limit ranges over RightLimitArgs whatever
\* the reference
RegionSchemes ==
    { sch \in PlainSchemes : sch.ref_len \in {MaxFreeRefLen, MaxRefLen} }

RegionInit ==
    /\ scheme \in RegionSchemes
    /\ scheme_regions = << >>
    /\ regions = << >>
    /\ region_num = 1
    /\ is_last = FALSE
    /\ \E left_limit \in Coords, slice_start \in Coords, arg \in RightLimitArgs :
         /\ region = NewRegion(1, left_limit, slice_start, arg)
         /\ made_with = << left_limit, slice_start, arg >>
         /\ ~OutOfBounds(region)
    /\ exhausted_left = FALSE
    /\ pc = "find_primers"
    /\ error = "none"
    /\ progress_calls = << >>
    /\ searched = << >>
    /\ reply = NoReply
    /\ candidates = << << >>, << >> >>
    /\ calls = << >>

RegionNext ==
    \/ FindSucceeds
    \/ FindStepsLeft
    \/ FindResets
    \/ FindStepsRight
    \/ FindFails

RegionSpec == RegionInit /\ [][RegionNext]_vars

\* the loop of find_primers runs on while it can
FairRegionSpec == RegionSpec /\ WF_vars(RegionNext)

-----------------------------------------------------------------------------
(* One single-slice attempt on its own, on an answer of the engine         *)

\* what a candidate can be: penalty and whether it aligns
LonePenalties == {0, PENALTY_THRESHOLD, PENALTY_THRESHOLD + 1}

\* at the edge of the slice, and one more place for a candidate of penalty 0
LoneLeft(w) ==
    { Primer(w.slice_start, w.slice_start, p, TRUE) : p \in LonePenalties }
      \cup { Primer(w.slice_start, w.slice_start, 0, FALSE),
              Primer(w.slice_start + 1, w.slice_start + 1, 0, TRUE) }

LoneRight(w) ==
    { Primer(SliceEnd(w) - 1, SliceEnd(w) - 1, p, TRUE) : p \in LonePenalties }
      \cup { Primer(SliceEnd(w) - 1, SliceEnd(w) - 1, 0, FALSE),
              Primer(SliceEnd(w) - 2, SliceEnd(w) - 2, 0, TRUE) }

LoneReplies(w) ==
    { Reply(l, r) : l \in SeqsUpTo(LoneLeft(w), MaxCands),
                    r \in SeqsUpTo(LoneRight(w), MaxCands) }

SliceInit ==
    /\ scheme = SchemeInit(MaxAmplicon, MaxAmplicon, MaxAmplicon, 1, 0, 1, FALSE)
    /\ scheme_regions = << >>
    /\ regions = << >>
    /\ region_num = 1
    /\ is_last = FALSE
    /\ region = NewRegion(1, 0, 0, Omitted)
    /\ exhausted_left = FALSE
    /\ pc = "slice"
    /\ error = "none"
    /\ progress_calls = << >>
    /\ searched = << >>
    /\ reply \in LoneReplies(region)
    /\ candidates = << << >>, << >> >>
    /\ made_with = << 0, 0, Omitted >>
    /\ calls = << >>

\* region._find_primers_for_slice(), its exception caught by the caller
SliceAttempt ==
    /\ pc = "slice"
    /\ LET res == FindPrimersForSlice(reply)
       IN  /\ candidates' = res.candidates
           /\ IF res.insufficient
              THEN /\ region' = region
                   /\ pc' = "insufficient"
                   /\ error' = "InsufficientPrimersError"
              ELSE /\ region' = [region EXCEPT
                                   !.candidate_pairs = res.candidate_pairs,
                                   !.top_pair = res.top_pair]
                   /\ pc' = "picked"
                   /\ error' = "none"
    /\ UNCHANGED << calls, made_with,
                    scheme, scheme_regions, regions, region_num, is_last,
                    exhausted_left, progress_calls, searched, reply >>

SliceNext == SliceAttempt

SliceSpec == SliceInit /\ [][SliceNext]_vars

-----------------------------------------------------------------------------
(* Properties of design_scheme (checked under Spec)                        *)

\* find_primers of the region at hand has ended without a top pair: it
\* raised NoSuitablePrimersError
FindFailed ==
    /\ region # None
    /\ region.top_pair = None
    /\ searched # << >>
    /\ pc # "find_primers"

\* C1: after design_scheme returns, the region at list position i has
\* region_num i, and its pool is 1 when i is odd and 2 when i is even.
C1_PoolsAlternate ==
    pc = "done" =>
        \A i \in 1..Len(scheme_regions) :
            /\ scheme_regions[i].region_num = i
            /\ scheme_regions[i].pool = (IF i % 2 = 1 THEN 1 ELSE 2)
            /\ i > 1 => scheme_regions[i].pool # scheme_regions[i - 1].pool

\* a scheme of four regions has been returned
C1_Witness == pc = "done" /\ Len(scheme_regions) >= 4

\* C2: every region n >= 3 that design_scheme constructs has its left_limit
\* at least one past the right-primer start of region n-2's top pair; in the
\* forced-progress branch it is prev's left end + 1, in the default branch
\* region n-2's right-primer start + 1.
SamePoolLimit(r) ==
    LET prev == regions[r.region_num - 1].top_pair
        prev_in_pool == regions[r.region_num - 2].top_pair
    IN  /\ r.left_limit >= prev_in_pool.right.start + 1
        /\ \/ /\ prev.left.start > prev_in_pool.right.start
              /\ r.left_limit = prev.left.end + 1
           \/ /\ prev.left.start <= prev_in_pool.right.start
              /\ r.left_limit = prev_in_pool.right.start + 1

C2_LeftLimitPastSamePool ==
    /\ \A i \in 3..Len(regions) : SamePoolLimit(regions[i])
    /\ (region # None /\ region.region_num >= 3) => SamePoolLimit(region)

\* region 3 was given its limit by the default branch, and the region at
\* hand, a later one, by the forced-progress branch with room to spare
C2_Witness ==
    /\ region # None
    /\ region.region_num >= 4
    /\ regions[3].left_limit = regions[1].top_pair.right.start + 1
    /\ region.left_limit = regions[region.region_num - 1].top_pair.left.end + 1
    /\ region.left_limit > regions[region.region_num - 2].top_pair.right.start + 1

\* C3: in a completed scheme, and in the list as it grows, the left-primer
\* start of region n+2's top pair lies strictly right of the right-primer
\* start of region n's top pair.
NoSamePoolOverlap(list) ==
    \A n \in 1..(Len(list) - 2) :
        list[n + 2].top_pair.left.start > list[n].top_pair.right.start

C3_NoSamePoolOverlap ==
    /\ NoSamePoolOverlap(regions)
    /\ pc = "done" => NoSamePoolOverlap(scheme_regions)

\* a returned scheme of four regions, its last region found in a window
\* that the last-region rule moved left
C3_Witness ==
    /\ pc = "done"
    /\ Len(scheme_regions) >= 4
    /\ is_last
    /\ scheme_regions[Len(scheme_regions)].initial_slice_start
         = scheme.ref_len - scheme.amplicon_size_max

\* C4 (the claim as stated): the only error that leaves design_scheme is
\* NoSuitablePrimersError, and only for region 1; SliceOutOfBoundsError
\* never leaves it.
C4_OnlyNoSuitablePrimersLeaves ==
    /\ error \in {"none", "NoSuitablePrimersError"}
    /\ pc = "raised" => (error = "NoSuitablePrimersError" /\ region_num = 1)

\* C5: when find_primers of region 1 raises NoSuitablePrimersError,
\* design_scheme raises it, scheme.regions is still empty and the progress
\* callback has not been called.
C5_FirstRegionFails ==
    (FindFailed /\ region_num = 1) =>
        /\ scheme_regions = << >>
        /\ progress_calls = << >>
        /\ \/ pc = "no_suitable"
           \/ pc = "raised" /\ error = "NoSuitablePrimersError"

\* design_scheme has raised for region 1 after searching both ways, with a
\* progress callback supplied
C5_Witness ==
    /\ pc = "raised"
    /\ error = "NoSuitablePrimersError"
    /\ scheme.progress_func
    /\ Len(searched) >= 3

\* C6: when regions 1..k-1 succeeded and find_primers of region k > 1 raises
\* NoSuitablePrimersError, no error leaves design_scheme, no region k+1 is
\* tried, and on return scheme.regions is the k-1 regions in order and the
\* last call of the progress callback was (ref_len, ref_len).
C6_LaterRegionFails ==
    (FindFailed /\ region_num > 1) =>
        /\ error = "none"
        /\ pc \in {"no_suitable", "finish", "done"}
        /\ region.region_num = region_num
        /\ Len(regions) = region_num - 1
        /\ \A i \in 1..Len(regions) :
              regions[i].region_num = i /\ regions[i].top_pair # None
        /\ pc = "done" =>
              /\ scheme_regions = regions
              /\ scheme.progress_func =>
                    /\ progress_calls # << >>
                    /\ progress_calls[Len(progress_calls)]
                         = << scheme.ref_len, scheme.ref_len >>
                    /\ Len(progress_calls) = region_num

\* design_scheme has returned three regions after the fourth failed, with a
\* progress callback supplied
C6_Witness ==
    /\ pc = "done"
    /\ FindFailed
    /\ region_num = 4
    /\ Len(scheme_regions) = 3
    /\ scheme.progress_func

\* the top pair of the region before region n
PrevOf(n) == regions[n - 1].top_pair

\* C15: from region 2 on, is_last is set exactly when ref_len minus the
\* right-primer start of the region before is <= amplicon_size_max; once it
\* is set no further region is constructed, whether the region at hand
\* succeeds or fails; and when it is not set and the region succeeds, the
\* loop goes round and constructs the next region.
C15_LastRegion ==
    /\ []( region_num >= 2 =>
             ( is_last <=>
                 scheme.ref_len - PrevOf(region_num).right.start
                   <= scheme.amplicon_size_max ) )
    /\ [][ is_last =>
             /\ region_num' = region_num
             /\ made_with' = made_with
             /\ pc' # "loop" ]_vars
    /\ [][ (region_num >= 2 /\ pc = "found" /\ ~is_last) => pc' = "loop" ]_vars
    /\ [][ pc = "loop" =>
             /\ region_num' = region_num + 1
             /\ region'.region_num = region_num + 1 ]_vars

\* a scheme whose third region was the last, found with exactly one
\* amplicon left after region 2, and whose second was not the last although
\* little more than one amplicon was left
C15_Witness ==
    /\ pc = "done"
    /\ Len(scheme_regions) = 3
    /\ is_last
    /\ scheme.ref_len - scheme_regions[2].top_pair.right.start
         = scheme.amplicon_size_max
    /\ scheme.ref_len - scheme_regions[1].top_pair.right.start
         = scheme.amplicon_size_max + 1

\* what progress_func is called with over a run that appended these regions
ExpectedProgress(list) ==
    [ i \in 1..(Len(list) + 1) |->
        IF i <= Len(list)
        THEN << list[i].top_pair.right.start, scheme.ref_len >>
        ELSE << scheme.ref_len, scheme.ref_len >> ]

\* C17: with a progress callback, a run that returns has called it once for
\* each appended region, in region order, with (that region's right-primer
\* start, ref_len), and then once with (ref_len, ref_len); a region is never
\* constructed before the call for the region before it; and a region that
\* failed gets no call.
C17_ProgressCalls ==
    /\ []( (scheme.progress_func /\ pc = "done") =>
              progress_calls = ExpectedProgress(scheme_regions) )
    /\ []( (scheme.progress_func /\ pc # "done") =>
              /\ Len(progress_calls) = Len(regions)
              /\ \A i \in 1..Len(regions) :
                   progress_calls[i] = ExpectedProgress(regions)[i] )
    /\ [][ (scheme.progress_func /\ region_num' # region_num) =>
              /\ Len(progress_calls) = region_num
              /\ progress_calls' = progress_calls ]_vars
    /\ [][ (scheme.progress_func /\ pc = "no_suitable") =>
              progress_calls' = progress_calls ]_vars

\* a run with a callback that returned two regions after its third failed
C17_Witness ==
    /\ pc = "done"
    /\ scheme.progress_func
    /\ Len(scheme_regions) = 2
    /\ region_num = 3
    /\ FindFailed
    /\ Len(progress_calls) = 3

\* C18: region 1 is constructed with left_limit 0 and slice_start 0.  Region
\* n >= 2 is constructed with slice_start = max(prev.right.end -
\* target_overlap - 1 - primer_max_size - (amplicon_size_max -
\* amplicon_size_min), left_limit), and with the smaller of that and
\* ref_len - amplicon_size_max when is_last; region 2 with left_limit =
\* region 1's left-primer end + 1.
C18_InitialSliceStart ==
    region_num >= 1 =>
        LET left_limit  == made_with[1]
            slice_start == made_with[2]
        IN  IF region_num = 1
            THEN left_limit = 0 /\ slice_start = 0
            ELSE LET prev == PrevOf(region_num)
                     wanted == prev.right.end - scheme.target_overlap - 1
                                 - scheme.primer_max_size
                                 - (scheme.amplicon_size_max
                                      - scheme.amplicon_size_min)
                     clamped == IF wanted >= left_limit
                                THEN wanted ELSE left_limit
                     at_end == scheme.ref_len - scheme.amplicon_size_max
                 IN  /\ slice_start =
                          (IF is_last /\ at_end < clamped
                           THEN at_end ELSE clamped)
                     /\ region.initial_slice_start = slice_start
                     /\ region.left_limit = left_limit
                     /\ region_num = 2 => left_limit = PrevOf(2).left.end + 1

\* a third region, not the last, found in a slice that was clamped up to
\* its left limit
C18_Witness ==
    /\ pc = "found"
    /\ region_num = 3
    /\ ~is_last
    /\ made_with[2] = made_with[1]
    /\ PrevOf(3).right.end - scheme.target_overlap - 1
         - scheme.primer_max_size
         - (scheme.amplicon_size_max - scheme.amplicon_size_min)
         < made_with[1]

\* every region of the list has a top pair and stands a whole number of
\* steps from where it was constructed
AllPicked(list) ==
    \A i \in 1..Len(list) :
        /\ list[i].top_pair # None
        /\ (list[i].slice_start - list[i].initial_slice_start)
             % scheme.step_distance = 0

\* C20: every region of the list being built, and of scheme.regions, has a
\* top pair and a slice_start a whole multiple of step_distance from its
\* initial one; the top pair is set by one step, a successful attempt of
\* find_primers, after which the region is never searched or changed again;
\* and a region whose find_primers raised has no top pair and is in neither
\* list.
C20_RegionsArePicked ==
    /\ [](AllPicked(regions) /\ AllPicked(scheme_regions))
    /\ []( FindFailed =>
             /\ region.top_pair = None
             /\ \A i \in 1..Len(regions) :
                  regions[i].region_num # region.region_num
             /\ \A i \in 1..Len(scheme_regions) :
                  scheme_regions[i].region_num # region.region_num )
    /\ [][ (region_num >= 1 /\ region_num' = region_num
              /\ region.top_pair # None) =>
             /\ region' = region
             /\ searched' = searched ]_vars
    /\ [][ (region_num >= 1 /\ region_num' = region_num
              /\ region.top_pair = None /\ region'.top_pair # None) =>
             /\ pc = "find_primers"
             /\ pc' = "found"
             /\ Len(searched') = Len(searched) + 1 ]_vars

\* a returned scheme whose second region was found two steps right of its
\* initial slice and whose third region failed
C20_Witness ==
    /\ pc = "done"
    /\ Len(scheme_regions) = 2
    /\ FindFailed
    /\ region.region_num = 3
    /\ scheme_regions[2].slice_start
         = scheme_regions[2].initial_slice_start + 2 * scheme.step_distance

\* C19: design_scheme ends, by returning or by raising; and from region 3
\* on the right-primer start of every region found is greater than that of
\* the region two before it.
C19_DesignSchemeTerminates ==
    /\ <>(pc \in {"done", "raised"})
    /\ []( \A i \in 3..Len(regions) :
             regions[i].top_pair.right.start
               > regions[i - 2].top_pair.right.start )
    /\ []( (pc = "found" /\ region_num >= 3) =>
             region.top_pair.right.start
               > regions[region_num - 2].top_pair.right.start )

\* a run that returned four regions, with steps of two bases
C19_Witness ==
    /\ pc = "done"
    /\ Len(scheme_regions) = 4
    /\ scheme.step_distance = 2

-----------------------------------------------------------------------------
(* Properties of one single-slice attempt (checked under SliceSpec)        *)

\* the candidate aligned and its penalty is within the threshold
Kept(primer) == primer.aligns /\ primer.penalty <= PENALTY_THRESHOLD

AllOverThreshold(direction) ==
    \A i \in 1..Len(direction) : direction[i].penalty > PENALTY_THRESHOLD

\* C7 (the claim as stated): after the attempt the list of each direction is
\* exactly the candidates that aligned with penalty <= 5, in their order; so
\* when every candidate of one side is over the threshold the attempt raises
\* InsufficientPrimersError and sets no top pair.
C7_SurvivorsAreExactlyTheKept ==
    pc \in {"insufficient", "picked"} =>
        /\ candidates[1] = SelectSeq(reply.left, Kept)
        /\ candidates[2] = SelectSeq(reply.right, Kept)
        /\ (AllOverThreshold(reply.left) \/ AllOverThreshold(reply.right)) =>
              /\ pc = "insufficient"
              /\ error = "InsufficientPrimersError"
              /\ region.top_pair = None

\* C16: after a successful attempt top_pair is a pair of the cross product
\* (left outer, right inner) of the surviving candidates, no pair of it has
\* a smaller combined penalty, and every pair before it in that order has a
\* greater one.
C16_TopPairIsFirstMinimum ==
    pc = "picked" =>
        LET pairs == CrossProduct(candidates[1], candidates[2])
        IN  \E i \in 1..Len(pairs) :
                /\ region.top_pair = pairs[i]
                /\ \A j \in 1..Len(pairs) :
                     CombinedPenalty(pairs[j]) >= CombinedPenalty(pairs[i])
                /\ \A j \in 1..(i - 1) :
                     CombinedPenalty(pairs[j]) > CombinedPenalty(pairs[i])
                /\ Len(region.candidate_pairs) = Len(pairs)

\* the pair picked is the first of two different pairs of the least penalty,
\* and not the first pair of the cross product
C16_Witness ==
    /\ pc = "picked"
    /\ LET pairs == CrossProduct(candidates[1], candidates[2])
       IN  /\ Len(pairs) >= 3
           /\ region.top_pair # pairs[1]
           /\ \E j \in 1..Len(pairs) :
                /\ pairs[j] # region.top_pair
                /\ CombinedPenalty(pairs[j])
                     = CombinedPenalty(region.top_pair)

-----------------------------------------------------------------------------
(* Properties of find_primers (checked under RegionSpec, FairRegionSpec)   *)

\* how many steps of step_distance fit left and right of the initial slice
StepsLeft(w) ==
    (w.initial_slice_start - w.left_limit) \div scheme.step_distance

StepsRight(w) ==
    (w.right_limit - scheme.amplicon_size_max - w.initial_slice_start)
        \div scheme.step_distance

\* s0, s0-d, ..., down to left_limit; then s0 again, s0+d, ..., up to where
\* slice_end reaches right_limit
SearchOrder(w) ==
    [ i \in 1..(StepsLeft(w) + StepsRight(w) + 2) |->
        IF i <= StepsLeft(w) + 1
        THEN w.initial_slice_start - (i - 1) * scheme.step_distance
        ELSE w.initial_slice_start
               + (i - StepsLeft(w) - 2) * scheme.step_distance ]

\* C8: the slices find_primers has searched are an initial part of the
\* order s0, s0-d, ... (while >= left_limit), s0 again, s0+d, ... (while
\* slice_end <= right_limit); while it runs the slice is at the next place
\* of that order, with exhausted_left set exactly from the second visit of
\* s0 on; and it raises NoSuitablePrimersError only with the whole order
\* searched.
C8_SearchOrder ==
    LET order == SearchOrder(region)
    IN  /\ Len(searched) <= Len(order)
        /\ \A i \in 1..Len(searched) : searched[i] = order[i]
        /\ pc = "find_primers" =>
              /\ Len(searched) < Len(order)
              /\ region.slice_start = order[Len(searched) + 1]
              /\ exhausted_left <=> Len(searched) > StepsLeft(region)
        /\ pc = "no_suitable" => searched = order
        /\ Len(searched) = Len(order) => pc \in {"no_suitable", "found"}

\* find_primers has raised after at least two steps each way
C8_Witness ==
    /\ pc = "no_suitable"
    /\ StepsLeft(region) >= 2
    /\ StepsRight(region) >= 2
    /\ region.left_limit > 0

\* C9: find_primers ends, with a top pair set or with
\* NoSuitablePrimersError raised and none set.
C9_FindPrimersTerminates ==
    <>( \/ pc = "found" /\ region.top_pair # None
        \/ pc = "no_suitable" /\ region.top_pair = None )

\* find_primers has ended with a top pair after searching both ways
C9_Witness ==
    /\ pc = "found"
    /\ exhausted_left
    /\ Len(searched) >= 5
    /\ region.slice_start > region.initial_slice_start

-----------------------------------------------------------------------------
(* Properties of Window (checked under WindowSpec)                         *)

\* C10: a constructed Window stays within its limits, whatever is called on
\* it and whether or not the call raises, and its limits never change.
C10_WindowStaysInBounds ==
    /\ [](pc = "window" =>
            /\ region.left_limit <= region.slice_start
            /\ region.slice_start + scheme.amplicon_size_max
                 <= region.right_limit)
    /\ [][pc = "window" =>
            /\ region'.left_limit = region.left_limit
            /\ region'.right_limit = region.right_limit]_vars

\* the Window has been moved off its initial slice and the last call raised
C10_Witness ==
    /\ pc = "window"
    /\ error = "SliceOutOfBoundsError"
    /\ region.slice_start # region.initial_slice_start
    /\ region.left_limit > 0
    /\ region.right_limit < scheme.ref_len

\* the latest call made on the Window, and the one before it
LastCall == calls[Len(calls)]
CallBefore == calls[1]

Raised(call) == call.error = "SliceOutOfBoundsError"

\* C11 (the claim as stated): Window(left_limit, slice_start, right_limit)
\* raises exactly when slice_start < left_limit or
\* slice_start + amplicon_size_max > right_limit, whatever the integers given,
\* right_limit = 0 included; an omitted right_limit stands for ref_len.
C11_RaisesExactlyWhenOutOfBounds ==
    pc \in {"window", "raised"} =>
        LET left_limit  == made_with[1]
            slice_start == made_with[2]
            right_limit == IF made_with[3].given
                           THEN made_with[3].value ELSE scheme.ref_len
        IN  (pc = "raised" /\ error = "SliceOutOfBoundsError")
              <=> \/ slice_start < left_limit
                  \/ slice_start + scheme.amplicon_size_max > right_limit

\* C12: after step_left, the call raised exactly when slice_start -
\* step_distance was below left_limit, and then slice_start is what it was;
\* otherwise slice_start is step_distance less.  The same for step_right,
\* which raised exactly when slice_end + step_distance was over right_limit
\* and otherwise leaves slice_start step_distance more.
C12_StepContract ==
    (pc = "window" /\ calls # << >>) =>
        LET d      == scheme.step_distance
            before == LastCall.before
        IN  /\ error = LastCall.error
            /\ LastCall.op = "step_left" =>
                 /\ Raised(LastCall) <=> before - d < region.left_limit
                 /\ region.slice_start =
                      (IF Raised(LastCall) THEN before ELSE before - d)
            /\ LastCall.op = "step_right" =>
                 /\ Raised(LastCall) <=>
                      before + scheme.amplicon_size_max + d > region.right_limit
                 /\ region.slice_start =
                      (IF Raised(LastCall) THEN before ELSE before + d)

\* two steps of two bases: a step_right that moved the slice after a
\* step_left that raised
C12_Witness ==
    /\ pc = "window"
    /\ Len(calls) = 2
    /\ scheme.step_distance = 2
    /\ CallBefore.op = "step_left" /\ Raised(CallBefore)
    /\ LastCall.op = "step_right" /\ ~Raised(LastCall)
    /\ region.slice_start = region.initial_slice_start + 2
    /\ region.left_limit > 0

\* C13: a step_left that succeeded, then step_right at once: the step_right
\* does not raise and slice_start is what it was before the step_left.
C13_StepLeftThenRightRestores ==
    ( /\ pc = "window"
      /\ Len(calls) = 2
      /\ CallBefore.op = "step_left" /\ ~Raised(CallBefore)
      /\ LastCall.op = "step_right" ) =>
        /\ ~Raised(LastCall)
        /\ error = "none"
        /\ region.slice_start = CallBefore.before

\* step_left then step_right, by two bases, on a Window that had already
\* been moved to where its slice ends on the right limit
C13_Witness ==
    /\ pc = "window"
    /\ Len(calls) = 2
    /\ CallBefore.op = "step_left" /\ ~Raised(CallBefore)
    /\ LastCall.op = "step_right"
    /\ scheme.step_distance = 2
    /\ region.slice_start # region.initial_slice_start
    /\ SliceEnd(region) = region.right_limit

\* C14: after reset_slice, slice_start is the slice_start the Window was
\* constructed with, whatever was called before; and a reset_slice right
\* after a reset_slice changes nothing.
C14_ResetSliceRestores ==
    /\ []( (pc = "window" /\ calls # << >> /\ LastCall.op = "reset_slice") =>
              /\ region.slice_start = made_with[2]
              /\ error = "none" )
    /\ [][ ( /\ pc = "window"
             /\ calls # << >>
             /\ LastCall.op = "reset_slice"
             /\ calls' # calls
             /\ calls'[Len(calls')].op = "reset_slice" ) =>
               /\ region' = region
               /\ error' = error ]_vars

\* reset_slice twice in a row on a Window whose slice it had brought back
C14_Witness ==
    /\ pc = "window"
    /\ Len(calls) = 2
    /\ CallBefore.op = "reset_slice"
    /\ CallBefore.before # made_with[2]
    /\ LastCall.op = "reset_slice"
    /\ made_with[2] > made_with[1]

=============================================================================
